---- MODULE Spec2Model ----
(***************************************************************************)
(* TIPS subset front end: the recursive-descent parser with embedded       *)
(* declaration checking (StartingPoint/parser.cpp) and the tree-walking    *)
(* interpreter attached to the AST nodes (StartingPoint/ast.h).            *)
(*                                                                         *)
(* Text (lexemes, output) is a sequence of one-character strings.          *)
(* A NumericValue is [kind, num, den]: Int n is num = n, den = 1; a Real   *)
(* is the exact rational num/den in lowest terms with den > 0.  den = 0    *)
(* marks a double this model does not compute (infinity, NaN, irrational   *)
(* powers).                                                                *)
(***************************************************************************)
EXTENDS Integers, Sequences, FiniteSets, TLC

VARIABLES
  source,       \* the whole token sequence of the input file (never changes)
  toks,         \* the Token Source: tokens yylex() has still to deliver
  symbolTable,  \* map<string, variant<int,double>> symbolTable
  program,      \* what parseProgram returned (NoProgram before / on failure)
  phase,        \* "start", "parsed", "parseError", "done", "runError", "crashed";
                \* declaration machine: "declared", "declError"; expression
                \* machine: "evaluated"
  err,          \* the error raised, [kind, line]
  next,         \* Block::interpret: index of the next statement of the body
  out,          \* the output stream
  cin,          \* the input stream: the whitespace-delimited words left
  expr,         \* expression machine: the Expr under evaluation
  result        \* expression machine: what eval() returned

vars == <<source, toks, symbolTable, program, phase, err, next, out, cin, expr, result>>

\* ------------------------------------------------------------------------
\* 32-bit signed integers (IntType = int32_t)
\* ------------------------------------------------------------------------
IntMax == 2147483647
IntMin == (-IntMax) - 1

\* a + b reduced modulo 2^32 into [IntMin, IntMax]
AddWrap(a, b) ==
  IF a >= 0 /\ b > IntMax - a THEN (a - IntMax - 1) + (b - IntMax - 1)
  ELSE IF a < 0 /\ b < IntMin - a THEN (a + IntMax + 1) + (b + IntMax + 1)
  ELSE a + b

NegWrap(a) == IF a = IntMin THEN IntMin ELSE -a

SubWrap(a, b) == AddWrap(a, NegWrap(b))

AddOverflows(a, b) ==
  \/ a >= 0 /\ b > IntMax - a
  \/ a < 0 /\ b < IntMin - a

SubOverflows(a, b) ==
  \/ b = IntMin /\ a >= 0
  \/ b # IntMin /\ AddOverflows(a, -b)

Abs(a) == IF a < 0 THEN -a ELSE a

\* the low and high 16 bits of the two's-complement pattern of a
Lo16(a) == a % 65536
Hi16(a) == ((a - Lo16(a)) \div 65536) % 65536

\* u * v for u, v < 2^16, as <<high part modulo 2^16, low 16 bits>> (no
\* intermediate leaves int32)
MulLimbs(u, v) ==
  LET t0 == (u % 256) * v
      t1 == (u \div 256) * v
      s == t0 + 256 * (t1 % 256)
  IN  <<((s \div 65536) + (t1 \div 256)) % 65536, s % 65536>>

\* mulWrap, mutated: the product saturates instead of wrapping
mulWrapSaturating(a, b) ==
  IF a = 0 \/ b = 0 THEN 0
  ELSE IF a = IntMin \/ b = IntMin
       THEN (IF (a < 0) = (b < 0) THEN IntMax ELSE IntMin)
  ELSE IF Abs(a) > IntMax \div Abs(b)
       THEN (IF (a < 0) = (b < 0) THEN IntMax ELSE IntMin)
  ELSE a * b

\* a * b reduced modulo 2^32 into [IntMin, IntMax]
Mul32(a, b) ==
  LET ll == MulLimbs(Lo16(a), Lo16(b))
      hi == (ll[1] + MulLimbs(Hi16(a), Lo16(b))[2] + MulLimbs(Lo16(a), Hi16(b))[2]) % 65536
  IN  (IF hi >= 32768 THEN hi - 65536 ELSE hi) * 65536 + ll[2]

\* mulWrap: the int64 product truncated to int32
mulWrap(a, b) == Mul32(a, b)

MulOverflows(a, b) ==
  /\ a # 0
  /\ b # 0
  /\ \/ (a = IntMin /\ b # 1)
     \/ (b = IntMin /\ a # 1)
     \/ (a # IntMin /\ b # IntMin /\ Abs(a) > IntMax \div Abs(b))

\* the while loop of powInt: e is the unsigned exponent still to process
RECURSIVE powLoop(_, _, _)
powNext(step) == powLoop(step[1], step[2], step[3])
powLoop(res, factor, e) ==
  IF e = 0 THEN res
  ELSE powNext(<<IF e % 2 = 1 THEN mulWrap(res, factor) ELSE res,
                 IF e \div 2 # 0 THEN mulWrap(factor, factor) ELSE factor,
                 e \div 2>>)

\* powInt(base, exp): binary exponentiation over mulWrap
powInt(base, exp) == IF exp = 0 THEN 1 ELSE powLoop(1, base, exp)

\* ------------------------------------------------------------------------
\* NumericValue = variant<IntType, RealType>
\* ------------------------------------------------------------------------
RECURSIVE GCD(_, _)
GCD(a, b) == IF b = 0 THEN a ELSE GCD(b, a % b)

IntVal(n) == [kind |-> "Int", num |-> n, den |-> 1]

\* a double outside the rationals this model computes
RealOpaque == [kind |-> "Real", num |-> 0, den |-> 0]

\* the double n/d (d # 0), in lowest terms with a positive denominator
RealVal(n, d) ==
  IF d < 0 /\ (n = IntMin \/ d = IntMin) THEN RealOpaque
  ELSE LET nn == IF d < 0 THEN -n ELSE n
           dd == IF d < 0 THEN -d ELSE d
           g == GCD(dd, nn % dd)
       IN  [kind |-> "Real", num |-> nn \div g, den |-> dd \div g]

IsInt(v) == v.kind = "Int"
IsReal(v) == v.kind = "Real"
IsFinite(v) == v.den # 0

\* static_cast<RealType>(IntType) / get<RealType>
ToReal(v) == [kind |-> "Real", num |-> v.num, den |-> v.den]

RealZero == [kind |-> "Real", num |-> 0, den |-> 1]
RealOne == [kind |-> "Real", num |-> 1, den |-> 1]

MulFits(a, b) == ~MulOverflows(a, b)

\* double arithmetic, exact while numerator and denominator fit the model's range
RAdd(a, b) ==
  IF IsFinite(a) /\ IsFinite(b) /\ MulFits(a.num, b.den) /\ MulFits(b.num, a.den)
     /\ MulFits(a.den, b.den) /\ ~AddOverflows(a.num * b.den, b.num * a.den)
  THEN RealVal(a.num * b.den + b.num * a.den, a.den * b.den)
  ELSE RealOpaque
RSub(a, b) ==
  IF IsFinite(a) /\ IsFinite(b) /\ MulFits(a.num, b.den) /\ MulFits(b.num, a.den)
     /\ MulFits(a.den, b.den) /\ ~SubOverflows(a.num * b.den, b.num * a.den)
  THEN RealVal(a.num * b.den - b.num * a.den, a.den * b.den)
  ELSE RealOpaque
RMul(a, b) ==
  IF IsFinite(a) /\ IsFinite(b) /\ MulFits(a.num, b.num) /\ MulFits(a.den, b.den)
  THEN RealVal(a.num * b.num, a.den * b.den)
  ELSE RealOpaque
\* a / b for b # 0.0
RDiv(a, b) ==
  IF IsFinite(a) /\ IsFinite(b) /\ MulFits(a.num, b.den) /\ MulFits(a.den, b.num)
  THEN RealVal(a.num * b.den, a.den * b.num)
  ELSE RealOpaque

RECURSIVE IPow(_, _)
IPow(b, n) == IF n = 0 THEN 1 ELSE b * IPow(b, n - 1)
RECURSIVE IPowFits(_, _)
IPowFits(b, n) ==
  n = 0 \/ (IPowFits(b, n - 1) /\ MulFits(b, IPow(b, n - 1)) /\ b * IPow(b, n - 1) # IntMin)

\* std::pow(a, b) on doubles: exact for an integral exponent while the result fits
RPow(a, b) ==
  IF ~IsFinite(a) \/ ~IsFinite(b) THEN RealOpaque
  ELSE IF b.num = 0 THEN RealOne
  ELSE IF a.num = 0 THEN (IF b.num > 0 THEN RealZero ELSE RealOpaque)
  ELSE IF b.den # 1 THEN (IF a = RealOne THEN RealOne ELSE RealOpaque)
  ELSE IF a.den = 1 /\ a.num \in {1, -1}
       THEN (IF a.num = 1 \/ b.num % 2 = 0 THEN RealOne ELSE RealVal(-1, 1))
  ELSE IF b.num > 31 \/ b.num < -31 THEN RealOpaque
  ELSE LET n == Abs(b.num)
       IN  IF ~IPowFits(a.num, n) \/ ~IPowFits(a.den, n) THEN RealOpaque
           ELSE IF b.num > 0 THEN RealVal(IPow(a.num, n), IPow(a.den, n))
           ELSE RealVal(IPow(a.den, n), IPow(a.num, n))

\* ------------------------------------------------------------------------
\* Text conversions
\* ------------------------------------------------------------------------
Digits == <<"0", "1", "2", "3", "4", "5", "6", "7", "8", "9">>
IsDigit(c) == \E i \in 1..10 : Digits[i] = c
DigitVal(c) == (CHOOSE i \in 1..10 : Digits[i] = c) - 1

\* the number a run of decimal digits denotes
RECURSIVE DigitsVal(_)
DigitsVal(s) ==
  IF s = <<>> THEN 0
  ELSE 10 * DigitsVal(SubSeq(s, 1, Len(s) - 1)) + DigitVal(s[Len(s)])

\* std::stoi on an INTLIT lexeme (digits only, in range)
stoi(lex) == DigitsVal(lex)

\* length of the longest prefix of s made of digits
RECURSIVE DigitRun(_)
DigitRun(s) ==
  IF s = <<>> \/ ~IsDigit(Head(s)) THEN 0 ELSE 1 + DigitRun(Tail(s))

\* std::stod on a FLOATLIT lexeme digits '.' digits
stod(lex) ==
  LET n == DigitRun(lex)
      frac == SubSeq(lex, n + 2, Len(lex))
      fl == DigitRun(frac)
  IN  RealVal(DigitsVal(SubSeq(lex, 1, n)) * IPow(10, fl) + DigitsVal(SubSeq(frac, 1, fl)),
              IPow(10, fl))

\* operator<< for a non-positive int, most significant digit first ("" for 0)
RECURSIVE NegDigits(_)
NegDigits(n) ==
  IF n = 0 THEN <<>>
  ELSE LET d == (10 - (n % 10)) % 10
       IN  Append(NegDigits((n + d) \div 10), Digits[d + 1])

\* out << int
IntText(n) ==
  IF n = 0 THEN <<"0">>
  ELSE IF n < 0 THEN <<"-">> \o NegDigits(n)
  ELSE NegDigits(-n)

\* s left-padded with zeros to width w
RECURSIVE ZeroPad(_, _)
ZeroPad(s, w) == IF Len(s) >= w THEN s ELSE ZeroPad(<<"0">> \o s, w)

\* out << fixed << setprecision(4) << double: round to nearest, ties to even.
\* The magnitude is handled as a non-positive number so that -2^31 is covered.
FixedText(v) ==
  IF ~IsFinite(v) \/ MulOverflows(v.den, 20000) THEN <<"?">>
  ELSE LET nn == IF v.num > 0 THEN -v.num ELSE v.num
           wholeNeg == (nn + v.den - 1) \div v.den
           a == (wholeNeg * v.den - nn) * 10000
           q == a \div v.den
           r == a % v.den
           up == (2 * r > v.den) \/ (2 * r = v.den /\ q % 2 = 1)
           m == IF up THEN q + 1 ELSE q
           whole == IF m = 10000 THEN wholeNeg - 1 ELSE wholeNeg
           frac == IF m = 10000 THEN 0 ELSE m
           sign == IF v.num < 0 THEN <<"-">> ELSE <<>>
       IN  sign \o (IF whole = 0 THEN <<"0">> ELSE NegDigits(whole)) \o <<".">>
             \o ZeroPad(IntText(frac), 4)

\* printValue(os, v): ints in decimal, doubles fixed with four decimals
printValue(v) == IF IsInt(v) THEN IntText(v.num) ELSE FixedText(v)

\* ------------------------------------------------------------------------
\* Expressions: AST nodes (ast.h) and their eval()
\* A node is [node, op, name, val, kids]; unused fields are empty.
\* ------------------------------------------------------------------------
NoValue == [kind |-> "None", num |-> 0, den |-> 0]

IntLiteral(v) ==
  [node |-> "IntLiteral", op |-> "", name |-> <<>>, val |-> IntVal(v), kids |-> <<>>]
RealLiteral(v) ==
  [node |-> "RealLiteral", op |-> "", name |-> <<>>, val |-> v, kids |-> <<>>]
IdentExpr(n) ==
  [node |-> "IdentExpr", op |-> "", name |-> n, val |-> NoValue, kids |-> <<>>]
UnaryExpr(o, e) ==
  [node |-> "UnaryExpr", op |-> o, name |-> <<>>, val |-> NoValue, kids |-> <<e>>]
PreIncDecExpr(isInc, n) ==
  [node |-> "PreIncDecExpr", op |-> IF isInc THEN "Inc" ELSE "Dec", name |-> n,
   val |-> NoValue, kids |-> <<>>]
BinaryExpr(o, L, R) ==
  [node |-> "BinaryExpr", op |-> o, name |-> <<>>, val |-> NoValue, kids |-> <<L, R>>]

\* what an evaluation step yields: a value, or the exception thrown.  ub records
\* that the C++ evaluation executed an operation with undefined behaviour (signed
\* overflow, INT_MIN % -1, an out-of-range double-to-int cast); val is then the
\* two's-complement outcome.
Yield(v, u) == [ok |-> TRUE, err |-> "none", val |-> v, ub |-> u]
Throw(kind) == [ok |-> FALSE, err |-> kind, val |-> NoValue, ub |-> FALSE]

\* the C++ built-in a % b on int (truncated: sign of the dividend), b # 0
TruncRem(a, b) ==
  IF b = IntMin THEN (IF a = IntMin THEN 0 ELSE a)
  ELSE LET m == a % Abs(b)
       IN  IF a >= 0 \/ m = 0 THEN m ELSE m - Abs(b)

\* Mod, mutated: the zero divisor is looked for before the operand kinds
ModEvalZeroFirst(A, B) ==
  IF ToReal(B) = RealZero THEN Throw("DivisionByZero")
  ELSE IF ~IsInt(A) \/ ~IsInt(B) THEN Throw("TypeError")
  ELSE LET r == TruncRem(A.num, B.num)
       IN  Yield(IntVal(IF r < 0 THEN AddWrap(r, Abs(B.num)) ELSE r), FALSE)

\* BinaryExpr::eval, op == Op::Mod
ModEval(A, B) ==
  IF ~IsInt(A) \/ ~IsInt(B) THEN Throw("TypeError")
  ELSE LET ai == A.num
           bi == B.num
       IN  IF bi = 0 THEN Throw("DivisionByZero")
           ELSE LET r == TruncRem(ai, bi)
                    divisor == IF bi > 0 THEN bi ELSE NegWrap(bi)
                IN  IF r < 0
                    THEN Yield(IntVal(AddWrap(r, divisor)),
                               (ai = IntMin /\ bi = -1) \/ bi = IntMin)
                    ELSE Yield(IntVal(r), ai = IntMin /\ bi = -1)

\* BinaryExpr::eval, op == Op::Pow
PowEval(A, B) ==
  IF IsInt(A) /\ IsInt(B)
  THEN IF B.num < 0 THEN Yield(RPow(ToReal(A), ToReal(B)), FALSE)
       ELSE Yield(IntVal(powInt(A.num, B.num)), FALSE)
  ELSE Yield(RPow(ToReal(A), ToReal(B)), FALSE)

\* Div, mutated: two Int operands divide as integers
DivEvalIntegral(A, B) ==
  IF ToReal(B) = RealZero THEN Throw("DivisionByZero")
  ELSE IF IsInt(A) /\ IsInt(B)
       THEN Yield(IntVal((IF (A.num < 0) = (B.num < 0) THEN 1 ELSE -1)
                         * (Abs(A.num) \div Abs(B.num))), FALSE)
  ELSE Yield(RDiv(ToReal(A), ToReal(B)), FALSE)

\* Div, mutated: the Int divisor 0 is let through
DivEvalNoZeroCheck(A, B) ==
  IF ToReal(B) = RealZero
  THEN (IF IsInt(B) THEN Yield(RealOpaque, FALSE) ELSE Throw("DivisionByZero"))
  ELSE Yield(RDiv(ToReal(A), ToReal(B)), FALSE)

\* BinaryExpr::eval, op == Op::Div
DivEval(A, B) ==
  LET a == ToReal(A)
      b == ToReal(B)
  IN  IF b = RealZero THEN Throw("DivisionByZero")
      ELSE Yield(RDiv(a, b), FALSE)

\* BinaryExpr::eval, Add / Sub / Mul
ArithEval(o, A, B) ==
  IF IsReal(A) \/ IsReal(B)
  THEN LET a == ToReal(A)
           b == ToReal(B)
       IN  CASE o = "Add" -> Yield(RAdd(a, b), FALSE)
             [] o = "Sub" -> Yield(RSub(a, b), FALSE)
             [] o = "Mul" -> Yield(RMul(a, b), FALSE)
             [] OTHER -> Throw("UnknownBinaryOp")
  ELSE LET a == A.num
           b == B.num
       IN  CASE o = "Add" -> Yield(IntVal(AddWrap(a, b)), AddOverflows(a, b))
             [] o = "Sub" -> Yield(IntVal(SubWrap(a, b)), SubOverflows(a, b))
             [] o = "Mul" -> Yield(IntVal(mulWrap(a, b)), MulOverflows(a, b))
             [] OTHER -> Throw("UnknownBinaryOp")

\* BinaryExpr::eval after both operands are evaluated
BinaryEval(o, A, B) ==
  CASE o = "Mod" -> ModEval(A, B)
    [] o = "Pow" -> PowEval(A, B)
    [] o = "Div" -> DivEval(A, B)
    [] OTHER -> ArithEval(o, A, B)

\* UnaryExpr::eval after the operand is evaluated
UnaryEval(o, v) ==
  IF IsInt(v)
  THEN (IF o = "Plus" THEN Yield(v, FALSE)
        ELSE Yield(IntVal(NegWrap(v.num)), v.num = IntMin))
  ELSE (IF o = "Plus" THEN Yield(v, FALSE)
        ELSE Yield(RSub(RealZero, v), FALSE))

\* PreIncDecExpr::eval on the stored value
IncDecEval(isInc, v) ==
  IF IsInt(v)
  THEN LET d == IF isInc THEN 1 ELSE -1
       IN  Yield(IntVal(AddWrap(v.num, d)), AddOverflows(v.num, d))
  ELSE Yield(RAdd(v, IF isInc THEN RealVal(1, 1) ELSE RealVal(-1, 1)), FALSE)

\* an evaluation result together with the symbol table it leaves
With(r, table) == [ok |-> r.ok, err |-> r.err, val |-> r.val, ub |-> r.ub, table |-> table]
OrUb(r, u) == [r EXCEPT !.ub = r.ub \/ u]

\* UnaryExpr::eval: the operand c evaluated, then the sign applied
UnaryStep(o, c) ==
  IF ~c.ok THEN c ELSE OrUb(With(UnaryEval(o, c.val), c.table), c.ub)

\* the store of PreIncDecExpr::eval, mutated: the updated value is only yielded
IncDecStepNoStore(name, table, r) == With(r, table)

\* PreIncDecExpr::eval: the updated value r is stored back and yielded
IncDecStep(name, table, r) == With(r, [table EXCEPT ![name] = r.val])

\* BinaryExpr::eval: both operands evaluated (A first), then the operator
BinaryStep(o, A, B) ==
  IF ~B.ok THEN OrUb(B, A.ub)
  ELSE OrUb(With(BinaryEval(o, A.val, B.val), B.table), A.ub \/ B.ub)

\* Expr::eval() against the symbol table `table`
RECURSIVE eval(_, _)
evalRight(e, A) ==
  IF ~A.ok THEN A ELSE BinaryStep(e.op, A, eval(e.kids[2], A.table))
eval(e, table) ==
  CASE e.node = "IntLiteral" -> With(Yield(e.val, FALSE), table)
    [] e.node = "RealLiteral" -> With(Yield(e.val, FALSE), table)
    [] e.node = "IdentExpr" ->
         IF e.name \notin DOMAIN table THEN With(Throw("UndeclaredIdentifier"), table)
         ELSE With(Yield(table[e.name], FALSE), table)
    [] e.node = "UnaryExpr" -> UnaryStep(e.op, eval(e.kids[1], table))
    [] e.node = "PreIncDecExpr" ->
         IF e.name \notin DOMAIN table THEN With(Throw("UndeclaredIdentifier"), table)
         ELSE IncDecStep(e.name, table, IncDecEval(e.op = "Inc", table[e.name]))
    [] e.node = "BinaryExpr" -> evalRight(e, eval(e.kids[1], table))

\* ------------------------------------------------------------------------
\* Tokens and the one-token lookahead (parser.cpp)
\* A token is [k, lex]; the stream ts is what yylex() has still to deliver.
\* ------------------------------------------------------------------------
Tok(k) == [k |-> k, lex |-> <<>>]
LexTok(k, lex) == [k |-> k, lex |-> lex]
EofTok == Tok("TOK_EOF")

\* peek(): the lookahead token; yylex() == 0 at the end of input is TOK_EOF
peek(ts) == IF ts = <<>> THEN "TOK_EOF" ELSE Head(ts).k
\* peekLex: cleared at the end of input
peekLex(ts) == IF ts = <<>> THEN <<>> ELSE Head(ts).lex
\* nextTok(): the stream after the lookahead is consumed
nextTok(ts) == IF ts = <<>> THEN <<>> ELSE Tail(ts)

\* a parse result: the stream and symbol table left, and the node built or the
\* error thrown.  err.line: the message carries yylineno; err.lex: the name the
\* message carries; err.rest: the tokens from the offending lookahead on.
NoErr == [kind |-> "none", line |-> FALSE, lex |-> <<>>, rest |-> 0]
POk(ts, table, v) == [ok |-> TRUE, err |-> NoErr, ts |-> ts, table |-> table, val |-> v]
PFail(kind, line, lex, ts, table) ==
  [ok |-> FALSE, err |-> [kind |-> kind, line |-> line, lex |-> lex, rest |-> Len(ts)],
   ts |-> ts, table |-> table, val |-> <<>>]

\* sequencing: a throw ends the enclosing parse function, a success continues it
Bind(r, K(_)) == IF r.ok THEN K(r) ELSE r

\* expect(want, msg): consume the lookahead, throw unless it was `want` (the
\* offending token is consumed too; err.rest still counts from it)
expect(want, ts, table) ==
  IF peek(ts) # want
  THEN [PFail(IF want = "TOK_EOF" THEN "TrailingInputError" ELSE "UnexpectedToken",
              TRUE, <<>>, ts, table) EXCEPT !.ts = nextTok(ts)]
  ELSE POk(nextTok(ts), table, want)

\* ------------------------------------------------------------------------
\* Declarations
\* ------------------------------------------------------------------------
EmptyTable == <<>>

\* parseType()
parseType(ts, table) ==
  IF peek(ts) = "INTEGER" THEN POk(nextTok(ts), table, "Int")
  ELSE IF peek(ts) = "REAL" THEN POk(nextTok(ts), table, "Real")
  ELSE PFail("ExpectedType", FALSE, <<>>, ts, table)

\* the zero value a declaration stores: symbolTable[d.name] = 0 or 0.0
ZeroOf(type) == IF type = "Int" THEN IntVal(0) ELSE RealZero

\* declaration insert, mutated: the second declaration overwrites the first
declareOverwriting(name, type, ts, table) ==
  POk(ts, [n \in (DOMAIN table) \cup {name} |->
             IF n = name THEN ZeroOf(type) ELSE table[n]], table)

\* declaration insert, mutated: every variable is stored as an int 0
declareAllInt(name, type, ts, table) ==
  IF name \in DOMAIN table
  THEN PFail("DuplicateDeclaration", FALSE, name, ts, table)
  ELSE POk(ts, [n \in (DOMAIN table) \cup {name} |->
                  IF n = name THEN IntVal(0) ELSE table[n]], table)

\* parseDeclarations: the duplicate check and the insert of one declaration
declare(name, type, ts, table) ==
  IF name \in DOMAIN table
  THEN PFail("DuplicateDeclaration", FALSE, name, ts, table)
  ELSE POk(ts, [n \in (DOMAIN table) \cup {name} |->
                  IF n = name THEN ZeroOf(type) ELSE table[n]], table)

\* parseDeclarations: the while (peek() == IDENT) loop
RECURSIVE declLoop(_, _, _)
declLoop(ts, table, decls) ==
  IF peek(ts) # "IDENT" THEN POk(ts, table, decls)
  ELSE Bind(expect("COLON", nextTok(ts), table), LAMBDA c :
       Bind(parseType(c.ts, table), LAMBDA t :
       Bind(declare(peekLex(ts), t.val, t.ts, table), LAMBDA d :
       Bind(expect("SEMICOLON", d.ts, d.table), LAMBDA sc :
       declLoop(sc.ts, d.table,
                Append(decls, [name |-> peekLex(ts), type |-> t.val]))))))

\* parseDeclarations(outDecls)
parseDeclarations(ts, table) ==
  IF peek(ts) # "VAR" THEN POk(ts, table, <<>>)
  ELSE declLoop(nextTok(ts), table, <<>>)

\* ------------------------------------------------------------------------
\* Expression grammar
\* ------------------------------------------------------------------------
\* identifier check, mutated: an undeclared name is let through
checkDeclaredLax(ts, table) == POk(ts, table, peekLex(ts))

\* if (!symbolTable.count(name)) throw ...: the lookahead IDENT must be declared
checkDeclared(ts, table) ==
  IF peekLex(ts) \notin DOMAIN table
  THEN PFail("UndeclaredIdentifier", FALSE, peekLex(ts), ts, table)
  ELSE POk(ts, table, peekLex(ts))

RECURSIVE parseExpression(_, _)
RECURSIVE parsePower(_, _)
RECURSIVE parseUnary(_, _)

\* parsePrimary()
parsePrimary(ts, table) ==
  CASE peek(ts) = "OPENPAREN" ->
         Bind(parseExpression(nextTok(ts), table), LAMBDA e :
         Bind(expect("CLOSEPAREN", e.ts, table), LAMBDA c :
         POk(c.ts, table, e.val)))
    [] peek(ts) = "INTLIT" -> POk(nextTok(ts), table, IntLiteral(stoi(peekLex(ts))))
    [] peek(ts) = "FLOATLIT" -> POk(nextTok(ts), table, RealLiteral(stod(peekLex(ts))))
    [] peek(ts) = "IDENT" ->
         Bind(checkDeclared(ts, table), LAMBDA d :
         POk(nextTok(ts), table, IdentExpr(d.val)))
    [] OTHER -> PFail("UnexpectedToken", FALSE, <<>>, ts, table)

\* parseUnary(): the ++ IDENT / -- IDENT branches
parseIncDec(isInc, ts, table) ==
  IF peek(ts) # "IDENT" THEN PFail("UnexpectedToken", FALSE, <<>>, ts, table)
  ELSE Bind(checkDeclared(ts, table), LAMBDA d :
       POk(nextTok(ts), table, PreIncDecExpr(isInc, d.val)))

\* parseUnary()
parseUnary(ts, table) ==
  CASE peek(ts) \in {"PLUS", "MINUS"} ->
         Bind(parseUnary(nextTok(ts), table), LAMBDA u :
         POk(u.ts, table,
             UnaryExpr(IF peek(ts) = "PLUS" THEN "Plus" ELSE "Minus", u.val)))
    [] peek(ts) \in {"INCREMENT", "DECREMENT"} ->
         parseIncDec(peek(ts) = "INCREMENT", nextTok(ts), table)
    [] OTHER -> parsePrimary(ts, table)

\* parsePower, mutated: the right operand is a single unary (left-nested chains)
RECURSIVE powerLeftLoop(_, _, _)
powerLeftLoop(e, ts, table) ==
  IF peek(ts) # "CUSTOM_OPER" THEN POk(ts, table, e)
  ELSE Bind(parseUnary(nextTok(ts), table), LAMBDA r :
       powerLeftLoop(BinaryExpr("Pow", e, r.val), r.ts, table))
parsePowerLeftAssoc(ts, table) ==
  Bind(parseUnary(ts, table), LAMBDA lhs : powerLeftLoop(lhs.val, lhs.ts, table))

\* parsePower(): unary (^^ power)?
parsePower(ts, table) ==
  Bind(parseUnary(ts, table), LAMBDA lhs :
  IF peek(lhs.ts) = "CUSTOM_OPER"
  THEN Bind(parsePower(nextTok(lhs.ts), table), LAMBDA rhs :
       POk(rhs.ts, table, BinaryExpr("Pow", lhs.val, rhs.val)))
  ELSE lhs)

\* the operator a token of parseTerm's loop builds ("" for any other token)
TermOp(k) ==
  CASE k = "MULTIPLY" -> "Mul" [] k = "DIVIDE" -> "Div" [] k = "MOD" -> "Mod"
    [] OTHER -> ""

\* parseTerm(): the while (true) loop
RECURSIVE termLoop(_, _, _)
termLoop(e, ts, table) ==
  IF TermOp(peek(ts)) = "" THEN POk(ts, table, e)
  ELSE Bind(parsePower(nextTok(ts), table), LAMBDA r :
       termLoop(BinaryExpr(TermOp(peek(ts)), e, r.val), r.ts, table))

\* parseTerm()
parseTerm(ts, table) ==
  Bind(parsePower(ts, table), LAMBDA e : termLoop(e.val, e.ts, table))

\* the operator a token of parseSimple's loop builds
SimpleOp(k) == CASE k = "PLUS" -> "Add" [] k = "MINUS" -> "Sub" [] OTHER -> ""

\* parseSimple(): the while (true) loop
RECURSIVE simpleLoop(_, _, _)
simpleLoop(e, ts, table) ==
  IF SimpleOp(peek(ts)) = "" THEN POk(ts, table, e)
  ELSE Bind(parseTerm(nextTok(ts), table), LAMBDA r :
       simpleLoop(BinaryExpr(SimpleOp(peek(ts)), e, r.val), r.ts, table))

\* parseSimple()
parseSimple(ts, table) ==
  Bind(parseTerm(ts, table), LAMBDA e : simpleLoop(e.val, e.ts, table))

parseExpression(ts, table) == parseSimple(ts, table)

\* ------------------------------------------------------------------------
\* Statements: AST nodes and parsing
\* A node is [node, kind, id, rhs, stmts]; unused fields are empty.
\* ------------------------------------------------------------------------
NoExpr == [node |-> "None", op |-> "", name |-> <<>>, val |-> NoValue, kids |-> <<>>]

ReadStmt(id) ==
  [node |-> "ReadStmt", kind |-> "", id |-> id, rhs |-> NoExpr, stmts |-> <<>>]
WriteStmt(kind, v) ==
  [node |-> "WriteStmt", kind |-> kind, id |-> v, rhs |-> NoExpr, stmts |-> <<>>]
AssignStmt(id, rhs) ==
  [node |-> "AssignStmt", kind |-> "", id |-> id, rhs |-> rhs, stmts |-> <<>>]
CompoundStmt(stmts) ==
  [node |-> "CompoundStmt", kind |-> "", id |-> <<>>, rhs |-> NoExpr, stmts |-> stmts]

Quote == "'"

\* parseWriteStmt: "Strip quotes"
stripQuotes(val) ==
  IF Len(val) >= 2 /\ Head(val) = Quote /\ val[Len(val)] = Quote
  THEN SubSeq(val, 2, Len(val) - 1)
  ELSE val

\* parseWriteStmt()
parseWriteStmt(ts, table) ==
  Bind(expect("WRITE", ts, table), LAMBDA w :
  Bind(expect("OPENPAREN", w.ts, table), LAMBDA o :
  CASE peek(o.ts) = "STRINGLIT" ->
         Bind(expect("CLOSEPAREN", nextTok(o.ts), table), LAMBDA c :
         POk(c.ts, table, WriteStmt("Str", stripQuotes(peekLex(o.ts)))))
    [] peek(o.ts) = "IDENT" ->
         Bind(checkDeclared(o.ts, table), LAMBDA d :
         Bind(expect("CLOSEPAREN", nextTok(o.ts), table), LAMBDA c :
         POk(c.ts, table, WriteStmt("Id", d.val))))
    [] OTHER -> PFail("UnexpectedToken", FALSE, <<>>, o.ts, table)))

\* parseReadStmt()
parseReadStmt(ts, table) ==
  Bind(expect("READ", ts, table), LAMBDA r :
  Bind(expect("OPENPAREN", r.ts, table), LAMBDA o :
  IF peek(o.ts) # "IDENT" THEN PFail("UnexpectedToken", FALSE, <<>>, o.ts, table)
  ELSE Bind(checkDeclared(o.ts, table), LAMBDA d :
       Bind(expect("CLOSEPAREN", nextTok(o.ts), table), LAMBDA c :
       POk(c.ts, table, ReadStmt(d.val))))))

\* parseAssignOrError() with parseAssignStmtWithLeadingIdent()
parseAssignOrError(ts, table) ==
  IF peek(ts) # "IDENT" THEN PFail("UnexpectedToken", FALSE, <<>>, ts, table)
  ELSE Bind(checkDeclared(ts, table), LAMBDA d :
       Bind(expect("ASSIGN", nextTok(ts), table), LAMBDA a :
       Bind(parseExpression(a.ts, table), LAMBDA rhs :
       POk(rhs.ts, table, AssignStmt(d.val, rhs.val)))))

RECURSIVE parseStatement(_, _)
RECURSIVE compoundLoop(_, _, _)
RECURSIVE compoundLoopStrict(_, _, _)

\* the loop of parseCompound(), mutated: every ';' must be followed by a statement
compoundLoopStrict(stmts, ts, table) ==
  IF peek(ts) # "SEMICOLON" THEN POk(ts, table, stmts)
  ELSE Bind(parseStatement(nextTok(ts), table), LAMBDA st :
       compoundLoopStrict(Append(stmts, st.val), st.ts, table))

\* parseCompound(): while (accept(SEMICOLON)) { if (peek() == END) break; ... }
compoundLoop(stmts, ts, table) ==
  IF peek(ts) # "SEMICOLON" THEN POk(ts, table, stmts)
  ELSE IF peek(nextTok(ts)) = "END" THEN POk(nextTok(ts), table, stmts)
  ELSE Bind(parseStatement(nextTok(ts), table), LAMBDA st :
       compoundLoop(Append(stmts, st.val), st.ts, table))

\* parseCompound(): the statements between BEGIN and END
compoundBody(ts, table) ==
  IF peek(ts) = "END" THEN POk(ts, table, <<>>)
  ELSE Bind(parseStatement(ts, table), LAMBDA st :
       compoundLoop(<<st.val>>, st.ts, table))

\* parseCompound()
parseCompound(ts, table) ==
  Bind(expect("TOK_BEGIN", ts, table), LAMBDA b :
  Bind(compoundBody(b.ts, table), LAMBDA body :
  Bind(expect("END", body.ts, table), LAMBDA e :
  POk(e.ts, table, CompoundStmt(body.val)))))

\* parseStatement()
parseStatement(ts, table) ==
  CASE peek(ts) = "READ" -> parseReadStmt(ts, table)
    [] peek(ts) = "WRITE" -> parseWriteStmt(ts, table)
    [] peek(ts) = "TOK_BEGIN" -> parseCompound(ts, table)
    [] peek(ts) = "IDENT" -> parseAssignOrError(ts, table)
    [] OTHER -> PFail("UnexpectedToken", FALSE, <<>>, ts, table)

\* parseBlock(): declarations, then the compound body
parseBlock(ts, table) ==
  Bind(parseDeclarations(ts, table), LAMBDA d :
  Bind(parseCompound(d.ts, d.table), LAMBDA c :
  POk(c.ts, d.table, [decls |-> d.val, body |-> c.val])))

NoProgram == [name |-> <<>>, block |-> [decls |-> <<>>, body |-> CompoundStmt(<<>>)]]

\* parseProgram(), mutated: what follows the block is not looked at
parseProgramNoEof(ts, table) ==
  Bind(expect("PROGRAM", ts, table), LAMBDA p :
  IF peek(p.ts) # "IDENT" THEN PFail("UnexpectedToken", FALSE, <<>>, p.ts, table)
  ELSE Bind(expect("SEMICOLON", nextTok(p.ts), table), LAMBDA sc :
       Bind(parseBlock(sc.ts, table), LAMBDA b :
       POk(b.ts, b.table, [name |-> peekLex(p.ts), block |-> b.val]))))

\* parseProgram(): PROGRAM IDENT ';' Block EOF
parseProgram(ts, table) ==
  Bind(expect("PROGRAM", ts, table), LAMBDA p :
  IF peek(p.ts) # "IDENT" THEN PFail("UnexpectedToken", FALSE, <<>>, p.ts, table)
  ELSE Bind(expect("SEMICOLON", nextTok(p.ts), table), LAMBDA sc :
       Bind(parseBlock(sc.ts, table), LAMBDA b :
       Bind(expect("TOK_EOF", b.ts, b.table), LAMBDA e :
       POk(e.ts, b.table, [name |-> peekLex(p.ts), block |-> b.val])))))

\* ------------------------------------------------------------------------
\* Statements: interpret()
\* An execution state is [table, out, cin]; a result adds ok, err, ub.
\* ------------------------------------------------------------------------
NL == "\n"

Done(table, o, in, u) ==
  [ok |-> TRUE, err |-> "none", ub |-> u, table |-> table, out |-> o, cin |-> in]
Raise(kind, table, o, in, u) ==
  [ok |-> FALSE, err |-> kind, ub |-> u, table |-> table, out |-> o, cin |-> in]

\* cin >> v: the sign and digits (and, for a double, fraction) the extraction
\* takes from the first word; n = 0 digits means the extraction fails
SignLen(w) == IF w # <<>> /\ Head(w) \in {"-", "+"} THEN 1 ELSE 0
Extract(w, real) ==
  LET sl == SignLen(w)
      body == SubSeq(w, sl + 1, Len(w))
      n1 == DigitRun(body)
      afterInt == SubSeq(body, n1 + 1, Len(body))
      hasDot == real /\ afterInt # <<>> /\ Head(afterInt) = "."
      n2 == IF hasDot THEN DigitRun(Tail(afterInt)) ELSE 0
      used == n1 + (IF hasDot THEN 1 + n2 ELSE 0)
      scale == IPow(10, n2)
      mag == DigitsVal(SubSeq(body, 1, n1)) * scale
               + (IF hasDot THEN DigitsVal(SubSeq(afterInt, 2, 1 + n2)) ELSE 0)
      sgn == IF sl = 1 /\ Head(w) = "-" THEN -1 ELSE 1
  IN  [ok |-> n1 + n2 > 0,
       val |-> IF real THEN RealVal(sgn * mag, scale) ELSE IntVal(sgn * mag),
       rest |-> SubSeq(body, used + 1, Len(body))]

\* ReadStmt::interpret: the extraction x stored, or the stream failure thrown
readInto(id, x, table, o, in) ==
  IF ~x.ok THEN Raise("InputFormatError", table, o, in, FALSE)
  ELSE Done([table EXCEPT ![id] = x.val], o,
            IF x.rest = <<>> THEN Tail(in) ELSE <<x.rest>> \o Tail(in), FALSE)

\* ReadStmt::interpret
interpretRead(id, table, o, in) ==
  IF id \notin DOMAIN table THEN Raise("UndeclaredIdentifier", table, o, in, FALSE)
  ELSE IF in = <<>> THEN Raise("InputFormatError", table, o, in, FALSE)
  ELSE readInto(id, Extract(Head(in), IsReal(table[id])), table, o, in)

\* WriteStmt::interpret
interpretWrite(kind, v, table, o, in) ==
  IF kind = "Str" THEN Done(table, o \o <<Quote>> \o v \o <<Quote, NL>>, in, FALSE)
  ELSE IF v \notin DOMAIN table THEN Raise("UndeclaredIdentifier", table, o, in, FALSE)
  ELSE Done(table, o \o printValue(table[v]) \o <<NL>>, in, FALSE)

\* the cast to int, mutated: rounds down instead of toward zero
TruncIntFloor(v) == IF ~IsFinite(v) THEN 0 ELSE v.num \div v.den

\* static_cast<IntType>(double): truncation toward zero
TruncInt(v) ==
  IF ~IsFinite(v) THEN 0
  ELSE IF v.num = IntMin THEN (IF v.den = 1 THEN IntMin ELSE -(IntMax \div v.den))
  ELSE (IF v.num < 0 THEN -1 ELSE 1) * (Abs(v.num) \div v.den)

\* AssignStmt::interpret: the coercion of rv to the kind the target holds
coerce(target, rv) ==
  IF IsInt(target)
  THEN (IF IsInt(rv) THEN rv ELSE IntVal(TruncInt(rv)))
  ELSE ToReal(rv)

\* AssignStmt::interpret: the store of the evaluated right side rv
store(id, rv, o, in) ==
  IF ~rv.ok THEN Raise(rv.err, rv.table, o, in, rv.ub)
  ELSE Done([rv.table EXCEPT ![id] = coerce(rv.table[id], rv.val)], o, in,
            rv.ub \/ (IsInt(rv.table[id]) /\ IsReal(rv.val) /\ ~IsFinite(rv.val)))

\* the store, mutated: the value is stored in its own kind
storeNoCoerce(id, rv, o, in) ==
  IF ~rv.ok THEN Raise(rv.err, rv.table, o, in, rv.ub)
  ELSE Done([rv.table EXCEPT ![id] = rv.val], o, in, rv.ub)

\* AssignStmt::interpret, mutated: no coercion to the target's kind
interpretAssignNoCoerce(id, rhs, table, o, in) ==
  IF id \notin DOMAIN table THEN Raise("UndeclaredIdentifier", table, o, in, FALSE)
  ELSE storeNoCoerce(id, eval(rhs, table), o, in)

\* AssignStmt::interpret
interpretAssign(id, rhs, table, o, in) ==
  IF id \notin DOMAIN table THEN Raise("UndeclaredIdentifier", table, o, in, FALSE)
  ELSE store(id, eval(rhs, table), o, in)

RECURSIVE interpret(_, _, _, _)
RECURSIVE interpretAll(_, _, _, _, _)

\* the loop of CompoundStmt::interpret, mutated: a failed statement is skipped
continuePastError(r, rest, u) ==
  interpretAll(rest, r.table, r.out, r.cin, r.ub \/ u)

\* CompoundStmt::interpret: for (auto& s : stmts) s->interpret(out)
continue(r, rest, u) ==
  IF ~r.ok THEN [r EXCEPT !.ub = r.ub \/ u]
  ELSE interpretAll(rest, r.table, r.out, r.cin, r.ub \/ u)
interpretAll(stmts, table, o, in, u) ==
  IF stmts = <<>> THEN Done(table, o, in, u)
  ELSE continue(interpret(Head(stmts), table, o, in), Tail(stmts), u)

\* Statement::interpret, by node type
interpret(st, table, o, in) ==
  CASE st.node = "ReadStmt" -> interpretRead(st.id, table, o, in)
    [] st.node = "WriteStmt" -> interpretWrite(st.kind, st.id, table, o, in)
    [] st.node = "AssignStmt" -> interpretAssign(st.id, st.rhs, table, o, in)
    [] st.node = "CompoundStmt" -> interpretAll(st.stmts, table, o, in, FALSE)

\* ------------------------------------------------------------------------
\* Inputs: the token streams, input streams and operand values explored
\* ------------------------------------------------------------------------
MaxStmts == 2      \* statements in a generated program body
MaxChainOps == 2   \* binary operators in a generated operator chain
MaxDecls == 3      \* declarations in a generated VAR section
MaxExp == 33       \* largest exponent of the integer power sweep

X == <<"x">>
Y == <<"y">>
Z == <<"z">>
Names == {X, Y, Z}

Ident(n) == LexTok("IDENT", n)
IntLit(lex) == LexTok("INTLIT", lex)
FloatLit(lex) == LexTok("FLOATLIT", lex)
StrLit(lex) == LexTok("STRINGLIT", lex)

Header == <<Tok("PROGRAM"), Ident(<<"p">>), Tok("SEMICOLON")>>

\* IDENT ':' type ';'
DeclToks(n, tk) == <<Ident(n), Tok("COLON"), Tok(tk), Tok("SEMICOLON")>>

\* the VAR sections of the generated programs: x, y declared in both kind orders
VarSections ==
  { <<Tok("VAR")>> \o DeclToks(X, "INTEGER") \o DeclToks(Y, "REAL"),
    <<Tok("VAR")>> \o DeclToks(X, "REAL") \o DeclToks(Y, "INTEGER"),
    <<>> }

Assign(n, rhs) == <<Ident(n), Tok("ASSIGN")>> \o rhs
Call(kw, arg) == <<Tok(kw), Tok("OPENPAREN"), arg, Tok("CLOSEPAREN")>>

StringLexemes ==
  { <<Quote, "h", "i", Quote>>, <<Quote, Quote>>, <<Quote>>,
    <<Quote, "a", Quote, "b", Quote>> }

\* the statements generated bodies are built from
StmtPool ==
  { Assign(X, <<IntLit(<<"5">>)>>),
    Assign(Y, <<Ident(X), Tok("DIVIDE"), IntLit(<<"2">>)>>),
    Assign(Y, <<IntLit(<<"7">>), Tok("DIVIDE"), IntLit(<<"2">>)>>),
    Assign(Y, <<FloatLit(<<"7", ".", "0">>), Tok("DIVIDE"), IntLit(<<"2">>)>>),
    Assign(Y, <<IntLit(<<"7">>), Tok("DIVIDE"), FloatLit(<<"2", ".", "0">>)>>),
    Assign(Y, <<FloatLit(<<"7", ".", "5">>), Tok("DIVIDE"), FloatLit(<<"2", ".", "5">>)>>),
    Assign(X, <<IntLit(<<"7">>), Tok("DIVIDE"), IntLit(<<"0">>)>>),
    Assign(Y, <<IntLit(<<"7">>), Tok("DIVIDE"), FloatLit(<<"0", ".", "0">>)>>),
    Assign(X, <<IntLit(<<"7">>), Tok("MOD"), IntLit(<<"0">>)>>),
    Assign(Y, <<Tok("INCREMENT"), Ident(Y), Tok("DIVIDE"),
                Tok("OPENPAREN"), Ident(X), Tok("MINUS"), Ident(X), Tok("CLOSEPAREN")>>),
    Assign(X, <<Tok("INCREMENT"), Ident(X), Tok("PLUS"), Ident(X)>>),
    Assign(Y, <<Tok("MINUS"), Tok("DECREMENT"), Ident(Y)>>),
    Assign(X, <<IntLit(<<"2", "1", "4", "7", "4", "8", "3", "6", "4", "7">>),
                Tok("PLUS"), Ident(X)>>),
    Assign(Z, <<IntLit(<<"1">>)>>),
    Assign(X, <<Ident(Z)>>),
    Assign(X, <<IntLit(<<"1">>), Tok("PLUS"), Tok("DECREMENT"), Ident(Z)>>),
    Assign(X, <<Ident(Y), Tok("MULTIPLY"), Tok("OPENPAREN"), Ident(Z), Tok("CLOSEPAREN")>>),
    Call("READ", Ident(X)),
    Call("READ", Ident(Y)),
    Call("READ", Ident(Z)),
    Call("WRITE", Ident(X)),
    Call("WRITE", Ident(Y)),
    Call("WRITE", Ident(Z)),
    <<Tok("TOK_BEGIN")>> \o Call("WRITE", Ident(Y)) \o <<Tok("SEMICOLON")>>
       \o Call("READ", Ident(X)) \o <<Tok("END")>>,
    <<Ident(X), Ident(Z)>> }
  \cup { Call("WRITE", StrLit(l)) : l \in StringLexemes }

\* stmt (';' stmt)* for every sequence of at most n pool statements
RECURSIVE StmtSeqs(_)
StmtSeqs(n) ==
  IF n = 0 THEN {<<>>}
  ELSE LET shorter == StmtSeqs(n - 1)
       IN  shorter \cup
           { (IF ss = <<>> THEN st ELSE ss \o <<Tok("SEMICOLON")>> \o st) :
               ss \in { q \in shorter : n = 1 \/ q # <<>> }, st \in StmtPool }

Body(ss) == <<Tok("TOK_BEGIN")>> \o ss \o <<Tok("END")>>

\* chains operand (op operand)* with at most n operators
ChainOps == {"PLUS", "MINUS", "MULTIPLY", "DIVIDE", "MOD", "CUSTOM_OPER"}
ChainOperands == <<IntLit(<<"8">>), IntLit(<<"3">>), IntLit(<<"2">>), IntLit(<<"5">>)>>
RECURSIVE Chains(_)
Chains(n) ==
  IF n = 0 THEN {<<ChainOperands[1]>>}
  ELSE LET shorter == Chains(n - 1)
       IN  shorter \cup
           { c \o <<Tok(o), ChainOperands[(((Len(c) + 1) \div 2) % 4) + 1]>> :
               c \in { q \in shorter : Len(q) = 2 * n - 1 }, o \in ChainOps }

\* the power chain of the associativity example: 2 ^^ 3 ^^ 2
PowerExample ==
  <<IntLit(<<"2">>), Tok("CUSTOM_OPER"), IntLit(<<"3">>), Tok("CUSTOM_OPER"), IntLit(<<"2">>)>>

RealVar == <<Tok("VAR")>> \o DeclToks(Y, "REAL")

\* the end-to-end division scenario:
\* VAR x : INTEGER; y : REAL; BEGIN x := 5; y := x / 2; WRITE(y) END
DivExample ==
  Header \o <<Tok("VAR")>> \o DeclToks(X, "INTEGER") \o DeclToks(Y, "REAL")
    \o Body(Assign(X, <<IntLit(<<"5">>)>>) \o <<Tok("SEMICOLON")>>
            \o Assign(Y, <<Ident(X), Tok("DIVIDE"), IntLit(<<"2">>)>>) \o <<Tok("SEMICOLON")>>
            \o Call("WRITE", Ident(Y)))

\* what is written after the END of a one-statement program
Trailers ==
  { <<Ident(Y)>>, <<Tok("END")>>, <<Tok("SEMICOLON")>>, <<Tok("TOK_BEGIN"), Tok("END")>>,
    <<IntLit(<<"1">>)>>, <<Tok("PROGRAM")>> }

\* compound bodies with semicolons in every position: after the last
\* statement, doubled, leading, missing, and inside a nested compound
SeparatorBodies ==
  LET s == Assign(X, <<IntLit(<<"5">>)>>)
      t == Call("WRITE", Ident(X))
      sc == <<Tok("SEMICOLON")>>
      B == <<Tok("TOK_BEGIN")>>
      E == <<Tok("END")>>
  IN  { s \o sc, s \o sc \o t \o sc, sc, s \o sc \o sc \o t, s \o sc \o sc, sc \o s,
        s \o t, B \o s \o sc \o E, B \o s \o sc \o E \o sc \o t, B \o E, B \o E \o sc,
        B \o s \o sc \o t \o E \o sc, B \o sc \o E, s \o sc \o B \o E }

\* bodies whose nested compounds fail part-way: a division by zero or a READ
\* between two WRITEs, one and two levels down
NestedBodies ==
  LET wx == Call("WRITE", Ident(X))
      wy == Call("WRITE", Ident(Y))
      rx == Call("READ", Ident(X))
      bad == Assign(X, <<IntLit(<<"7">>), Tok("DIVIDE"), IntLit(<<"0">>)>>)
      sc == <<Tok("SEMICOLON")>>
      B == <<Tok("TOK_BEGIN")>>
      E == <<Tok("END")>>
  IN  { B \o wy \o sc \o bad \o sc \o wx \o E,
        B \o wy \o sc \o bad \o sc \o wx \o E \o sc \o wy,
        wx \o sc \o B \o B \o rx \o sc \o wx \o E \o sc \o wy \o E \o sc \o wx,
        B \o B \o wy \o sc \o bad \o E \o sc \o wx \o E \o sc \o wy }

\* the token streams the program machine starts from
Programs ==
  { Header \o v \o Body(ss) : v \in VarSections, ss \in StmtSeqs(MaxStmts) }
  \cup { Header \o RealVar \o Body(Assign(Y, c)) : c \in Chains(MaxChainOps) \cup {PowerExample} }
  \cup { Header \o RealVar \o Body(<<>>) \o t : t \in {<<Ident(Y)>>, <<Tok("END")>>} }
  \cup { DivExample }
  \cup { Header \o v \o Body(ss) \o t :
            v \in VarSections, ss \in StmtSeqs(1), t \in Trailers }
  \cup { Header \o v \o Body(b) : v \in VarSections, b \in SeparatorBodies }
  \cup { Header \o v \o Body(b) : v \in VarSections, b \in NestedBodies }

\* the input streams: words separated by whitespace
Inputs ==
  { <<>>,
    << <<"a", "b", "c">> >>,
    << <<"-", "4", "2">>, <<"2", ".", "5">>, <<"7">> >> }

\* ------------------------------------------------------------------------
\* The program machine: parseProgram, then Program::interpret
\* ------------------------------------------------------------------------
NoResult == With(Throw("none"), EmptyTable)
RunErr(kind) == [kind |-> kind, line |-> FALSE, lex |-> <<>>, rest |-> 0]

Init ==
  /\ source \in Programs
  /\ toks = source
  /\ cin \in Inputs
  /\ symbolTable = EmptyTable
  /\ program = NoProgram
  /\ phase = "start"
  /\ err = NoErr
  /\ next = 1
  /\ out = <<>>
  /\ expr = NoExpr
  /\ result = NoResult

\* the outcome r of parseProgram() becomes the state
parsed(r) ==
  /\ toks' = r.ts
  /\ symbolTable' = r.table
  /\ program' = IF r.ok THEN r.val ELSE NoProgram
  /\ phase' = IF r.ok THEN "parsed" ELSE "parseError"
  /\ err' = r.err

\* parseProgram() on the token stream
Parse ==
  /\ phase = "start"
  /\ parsed(parseProgram(toks, symbolTable))
  /\ UNCHANGED <<source, next, out, cin, expr, result>>

Stmts == program.block.body.stmts

\* the outcome r of one statement becomes the state
ran(r) ==
  /\ symbolTable' = r.table
  /\ out' = r.out
  /\ cin' = r.cin
  /\ next' = IF r.ok THEN next + 1 ELSE next
  /\ phase' = IF r.ok THEN "parsed" ELSE "runError"
  /\ err' = IF r.ok THEN err ELSE RunErr(r.err)
ranDefined(r) == ~r.ub /\ ran(r)
ranUndefined(r) ==
  /\ r.ub
  /\ \/ ran(r)
     \/ /\ phase' = "crashed"
        /\ UNCHANGED <<symbolTable, out, cin, next, err>>

\* Block::interpret: the next statement of the body runs to its end or its throw
InterpretStmt ==
  /\ phase = "parsed"
  /\ next <= Len(Stmts)
  /\ ranDefined(interpret(Stmts[next], symbolTable, out, cin))
  /\ UNCHANGED <<source, toks, program, expr, result>>

\* the next statement executes an operation with undefined behaviour: the build
\* either wraps in two's complement and carries on, or traps
InterpretStmtUB ==
  /\ phase = "parsed"
  /\ next <= Len(Stmts)
  /\ ranUndefined(interpret(Stmts[next], symbolTable, out, cin))
  /\ UNCHANGED <<source, toks, program, expr, result>>

\* Block::interpret returns after the last statement
Finish ==
  /\ phase = "parsed"
  /\ next > Len(Stmts)
  /\ phase' = "done"
  /\ UNCHANGED <<source, toks, symbolTable, program, err, next, out, cin, expr, result>>

Next == Parse \/ InterpretStmt \/ InterpretStmtUB \/ Finish

Spec == Init /\ [][Next]_vars

\* ------------------------------------------------------------------------
\* The declaration machine: parseDeclarations on a VAR section
\* ------------------------------------------------------------------------
DeclTypes == {"INTEGER", "REAL"}

\* VAR followed by at most n declarations over Names (repeats included)
RECURSIVE DeclLists(_)
DeclLists(n) ==
  IF n = 0 THEN {<<Tok("VAR")>>}
  ELSE LET shorter == DeclLists(n - 1)
       IN  shorter \cup
           { d \o DeclToks(nm, tk) :
               d \in { q \in shorter : Len(q) = 4 * n - 3 }, nm \in Names, tk \in DeclTypes }

\* declarations that are not well formed: no type, no colon, no semicolon
BadDecls ==
  { <<Ident(X), Tok("COLON"), Tok("SEMICOLON")>>,
    <<Ident(X), Tok("INTEGER"), Tok("SEMICOLON")>>,
    <<Ident(X), Tok("COLON"), Tok("REAL")>> }

\* the token streams the declaration machine starts from; each ends at BEGIN
DeclStreams ==
  { d \o <<Tok("TOK_BEGIN")>> : d \in DeclLists(MaxDecls) }
  \cup { d \o b \o <<Tok("TOK_BEGIN")>> : d \in DeclLists(1), b \in BadDecls }
  \cup { <<Tok("TOK_BEGIN")>> }

InitDecl ==
  /\ source \in DeclStreams
  /\ toks = source
  /\ cin = <<>>
  /\ symbolTable = EmptyTable
  /\ program = NoProgram
  /\ phase = "start"
  /\ err = NoErr
  /\ next = 1
  /\ out = <<>>
  /\ expr = NoExpr
  /\ result = NoResult

\* the outcome r of parseDeclarations becomes the state
declared(r) ==
  /\ toks' = r.ts
  /\ symbolTable' = r.table
  /\ program' = IF r.ok THEN [program EXCEPT !.block.decls = r.val] ELSE program
  /\ phase' = IF r.ok THEN "declared" ELSE "declError"
  /\ err' = r.err

\* parseBlock: parseDeclarations(b->decls) fills the table and the decl list
ParseDeclarations ==
  /\ phase = "start"
  /\ declared(parseDeclarations(toks, symbolTable))
  /\ UNCHANGED <<source, next, out, cin, expr, result>>

NextDecl == ParseDeclarations

SpecDecl == InitDecl /\ [][NextDecl]_vars

\* ------------------------------------------------------------------------
\* The expression machine: Expr::eval() of one expression over x and y
\* ------------------------------------------------------------------------
\* the values x holds and y holds when the expression is evaluated
XInts == {IntMin, -7, -3, -2, -1, 0, 1, 2, 3, 7, 10, 65536, IntMax}
YInts == {IntMin, -7, -3, -1, IntMax} \cup (0..MaxExp)
SomeReals == {RealZero, RealVal(5, 2), RealVal(-1, 2)}
XValues == { IntVal(n) : n \in XInts } \cup SomeReals
YValues == { IntVal(n) : n \in YInts } \cup SomeReals

BinaryOps == {"Add", "Sub", "Mul", "Div", "Mod", "Pow"}
XopY(o) == BinaryExpr(o, IdentExpr(X), IdentExpr(Y))

\* ++x + x and x + ++x
IncThenX == BinaryExpr("Add", PreIncDecExpr(TRUE, X), IdentExpr(X))
XThenInc == BinaryExpr("Add", IdentExpr(X), PreIncDecExpr(TRUE, X))

\* ++x MOD --y
IncModDec == BinaryExpr("Mod", PreIncDecExpr(TRUE, X), PreIncDecExpr(FALSE, Y))

\* the expressions evaluated: x op y for every operator, -x, ++x, --x,
\* --x + y, ++x + x, x + ++x, ++x MOD --y
Exprs ==
  { XopY(o) : o \in BinaryOps }
  \cup { UnaryExpr("Minus", IdentExpr(X)),
         PreIncDecExpr(TRUE, X),
         PreIncDecExpr(FALSE, X),
         BinaryExpr("Add", PreIncDecExpr(FALSE, X), IdentExpr(Y)),
         IncThenX,
         XThenInc,
         IncModDec }

TableOf(xv, yv) == [n \in {X, Y} |-> IF n = X THEN xv ELSE yv]

InitEval ==
  /\ symbolTable \in { TableOf(xv, yv) : xv \in XValues, yv \in YValues }
  /\ expr \in Exprs
  /\ result = NoResult
  /\ phase = "start"
  /\ source = <<>>
  /\ toks = <<>>
  /\ cin = <<>>
  /\ program = NoProgram
  /\ err = NoErr
  /\ next = 1
  /\ out = <<>>

\* the outcome r of eval() becomes the state
evaluated(r) ==
  /\ result' = r
  /\ symbolTable' = r.table
  /\ phase' = "evaluated"
evaluatedDefined(r) == ~r.ub /\ evaluated(r)
evaluatedUndefined(r) ==
  /\ r.ub
  /\ \/ evaluated(r)
     \/ /\ phase' = "crashed"
        /\ UNCHANGED <<result, symbolTable>>

\* eval() runs to its value or its throw
Evaluate ==
  /\ phase = "start"
  /\ evaluatedDefined(eval(expr, symbolTable))
  /\ UNCHANGED <<source, toks, program, err, next, out, cin, expr>>

\* eval() executes an operation with undefined behaviour: the build either
\* wraps in two's complement, or traps
EvaluateUB ==
  /\ phase = "start"
  /\ evaluatedUndefined(eval(expr, symbolTable))
  /\ UNCHANGED <<source, toks, program, err, next, out, cin, expr>>

\* the outcome r of an assignment becomes the state (or the trap does)
assigned(r) ==
  \/ /\ symbolTable' = r.table
     /\ out' = r.out
     /\ phase' = IF r.ok THEN "assigned" ELSE "runError"
     /\ err' = IF r.ok THEN err ELSE RunErr(r.err)
  \/ /\ r.ub
     /\ phase' = "crashed"
     /\ UNCHANGED <<symbolTable, out, err>>

\* AssignStmt::interpret of `t := expr` for a target t; an evaluation with
\* undefined behaviour either carries on with the wrapped value or traps
AssignTo ==
  /\ phase = "start"
  /\ \E t \in {X, Y} : assigned(interpretAssign(t, expr, symbolTable, out, cin))
  /\ UNCHANGED <<source, toks, program, next, cin, expr, result>>

NextEval == Evaluate \/ EvaluateUB \/ AssignTo

SpecEval == InitEval /\ [][NextEval]_vars

\* ------------------------------------------------------------------------
\* The process machine: parseProgram and Program::interpret, one program after
\* another in the same process.  symbolTable is the global of parser.cpp; no
\* code of parser.cpp or ast.h clears it or erases from it.
\* ------------------------------------------------------------------------
\* the programs a process is given, all without READ
RunPrograms ==
  LET xInt == <<Tok("VAR")>> \o DeclToks(X, "INTEGER")
      five == Assign(X, <<IntLit(<<"5">>)>>)
      sc == <<Tok("SEMICOLON")>>
      big == IntLit(<<"2", "1", "4", "7", "4", "8", "3", "6", "4", "7">>)
  IN  { Header \o xInt \o Body(five \o sc \o Call("WRITE", Ident(X))),
        Header \o xInt \o Body(Call("WRITE", Ident(X))),
        Header \o Body(Call("WRITE", Ident(X))),
        Header \o RealVar
          \o Body(Assign(Y, <<IntLit(<<"7">>), Tok("DIVIDE"), IntLit(<<"2">>)>>) \o sc
                  \o Call("WRITE", Ident(Y))),
        Header \o xInt \o Body(five \o sc \o Assign(X, <<big, Tok("PLUS"), Ident(X)>>)),
        Header \o xInt \o DeclToks(X, "REAL") \o Body(<<>>),
        Header \o Body(Assign(X, <<IntLit(<<"7">>), Tok("DIVIDE"), IntLit(<<"0">>)>>)) }

InitRuns ==
  /\ source \in RunPrograms
  /\ toks = source
  /\ cin = <<>>
  /\ symbolTable = EmptyTable
  /\ program = NoProgram
  /\ phase = "start"
  /\ err = NoErr
  /\ next = 1
  /\ out = <<>>
  /\ expr = NoExpr
  /\ result = NoResult

\* the process goes on to its next program after a parse or a run has ended:
\* a new token stream and output stream, the same global symbolTable
NewRun ==
  /\ phase \in {"done", "parseError", "runError"}
  /\ source' \in RunPrograms
  /\ toks' = source'
  /\ program' = NoProgram
  /\ phase' = "start"
  /\ err' = NoErr
  /\ next' = 1
  /\ out' = <<>>
  /\ UNCHANGED <<symbolTable, cin, expr, result>>

NextRuns == Parse \/ InterpretStmt \/ InterpretStmtUB \/ Finish \/ NewRun

SpecRuns == InitRuns /\ [][NextRuns]_vars

\* ------------------------------------------------------------------------
\* Properties of the declaration machine
\* ------------------------------------------------------------------------
\* the declaration list as written in the source: VAR (IDENT ':' type ';')* BEGIN
SrcCount == (Len(source) - 2) \div 4
SrcIsList ==
  /\ Len(source) % 4 = 2
  /\ source[1].k = "VAR"
  /\ source[Len(source)].k = "TOK_BEGIN"
  /\ \A i \in 1..SrcCount :
       /\ source[4 * i - 2].k = "IDENT"
       /\ source[4 * i - 1].k = "COLON"
       /\ source[4 * i].k \in {"INTEGER", "REAL"}
       /\ source[4 * i + 1].k = "SEMICOLON"
SrcName(i) == source[4 * i - 2].lex
SrcKind(i) == IF source[4 * i].k = "INTEGER" THEN "Int" ELSE "Real"
SrcZero(i) == [kind |-> SrcKind(i), num |-> 0, den |-> 1]
SrcRepeats(j) == \E i \in 1..(j - 1) : SrcName(i) = SrcName(j)
SrcDistinct == \A j \in 1..SrcCount : ~SrcRepeats(j)
SrcFirstRepeat == CHOOSE j \in 1..SrcCount : SrcRepeats(j) /\ \A i \in 1..(j - 1) : ~SrcRepeats(i)

\* C1: on a well-formed declaration list without repeats, parseDeclarations
\* succeeds; the symbol table then holds exactly the declared names, each with
\* the zero value of its declared kind, and the decl list holds the names (and
\* kinds) in source order.
C1_DeclarationsFillTable ==
  (phase # "start" /\ SrcIsList /\ SrcDistinct) =>
     /\ phase = "declared"
     /\ DOMAIN symbolTable = { SrcName(i) : i \in 1..SrcCount }
     /\ \A i \in 1..SrcCount : symbolTable[SrcName(i)] = SrcZero(i)
     /\ program.block.decls =
          [i \in 1..SrcCount |-> [name |-> SrcName(i), type |-> SrcKind(i)]]

\* C1 witness: three declarations of mixed kinds were parsed
C1_Witness ==
  /\ phase = "declared" /\ SrcIsList /\ SrcCount = 3
  /\ SrcKind(1) = "Real" /\ SrcKind(2) = "Int"
  /\ Len(program.block.decls) = 3

\* C2: when a name is declared a second time, parsing fails with
\* DuplicateDeclaration at that declaration (after its type, naming it), and
\* the table holds the earlier declarations with their own kinds and zeros.
C2_DuplicateRejected ==
  (phase # "start" /\ SrcIsList /\ ~SrcDistinct) =>
     LET j == SrcFirstRepeat
     IN  /\ phase = "declError"
         /\ err.kind = "DuplicateDeclaration"
         /\ err.lex = SrcName(j)
         /\ err.rest = Len(source) - 4 * j
         /\ DOMAIN symbolTable = { SrcName(i) : i \in 1..(j - 1) }
         /\ \A i \in 1..(j - 1) : symbolTable[SrcName(i)] = SrcZero(i)

\* C2 witness: the third declaration repeats the first with the other type
C2_Witness ==
  /\ phase = "declError" /\ err.kind = "DuplicateDeclaration"
  /\ SrcIsList /\ SrcCount = 3 /\ SrcFirstRepeat = 3
  /\ SrcName(3) = SrcName(1) /\ SrcKind(3) # SrcKind(1)

\* ------------------------------------------------------------------------
\* Properties of the program machine
\* ------------------------------------------------------------------------
\* the names an expression / a statement of the AST refers to
RECURSIVE ExprNames(_)
ExprNames(e) ==
  (IF e.node \in {"IdentExpr", "PreIncDecExpr"} THEN {e.name} ELSE {})
    \cup UNION { ExprNames(e.kids[i]) : i \in DOMAIN e.kids }
RECURSIVE StmtNames(_)
StmtNames(st) ==
  CASE st.node = "ReadStmt" -> {st.id}
    [] st.node = "WriteStmt" -> IF st.kind = "Id" THEN {st.id} ELSE {}
    [] st.node = "AssignStmt" -> {st.id} \cup ExprNames(st.rhs)
    [] st.node = "CompoundStmt" -> UNION { StmtNames(st.stmts[i]) : i \in DOMAIN st.stmts }

\* the body as written in the source: it starts at the first BEGIN
BodyStart == CHOOSE i \in 1..Len(source) :
               source[i].k = "TOK_BEGIN" /\ \A j \in 1..(i - 1) : source[j].k # "TOK_BEGIN"
UndeclaredAt(i) ==
  i > BodyStart /\ source[i].k = "IDENT" /\ source[i].lex \notin DOMAIN symbolTable
HasUndeclared == \E i \in 1..Len(source) : UndeclaredAt(i)
FirstUndeclared ==
  CHOOSE i \in 1..Len(source) : UndeclaredAt(i) /\ \A j \in 1..(i - 1) : ~UndeclaredAt(j)
\* the token before an identifier that stands as a statement's target, a READ or
\* WRITE argument, an operand of ++ / --, or an expression primary
RoleOpeners ==
  {"TOK_BEGIN", "SEMICOLON", "OPENPAREN", "ASSIGN", "INCREMENT", "DECREMENT",
   "PLUS", "MINUS", "MULTIPLY", "DIVIDE", "MOD", "CUSTOM_OPER"}
\* tokens unconsumed when the lookahead is source[i]
RestAt(i) == Len(source) - i + 1

\* C3: parsing never gets past an identifier of the body that is not in the
\* symbol table: it has failed at or before the first one, and when it fails
\* with that identifier as lookahead in one of the five identifier positions,
\* the failure is UndeclaredIdentifier naming it; a program that parsed has no
\* AST node naming an identifier outside the table.
C3_UndeclaredRejected ==
  /\ (phase # "start" /\ HasUndeclared) =>
        /\ phase = "parseError"
        /\ err.rest >= RestAt(FirstUndeclared)
        /\ (err.rest = RestAt(FirstUndeclared)
              /\ source[FirstUndeclared - 1].k \in RoleOpeners) =>
             (err.kind = "UndeclaredIdentifier" /\ err.lex = source[FirstUndeclared].lex)
  /\ phase \in {"parsed", "done", "runError", "crashed"} =>
        StmtNames(program.block.body) \subseteq DOMAIN symbolTable

\* C3 witness: with x and y declared, the operand z of -- is rejected
C3_Witness ==
  /\ phase = "parseError" /\ err.kind = "UndeclaredIdentifier" /\ err.lex = Z
  /\ DOMAIN symbolTable = {X, Y}
  /\ HasUndeclared /\ source[FirstUndeclared - 1].k = "DECREMENT"
  /\ err.rest = RestAt(FirstUndeclared)

\* the declarations the parsed Block records
Decls == program.block.decls
Running == phase \in {"parsed", "done", "runError", "crashed"}

\* C4: in every state after parsing, whatever statements have run, the names
\* of the symbol table are exactly the declared names and each entry has the
\* kind it was declared with.
C4_KindsAndKeysStable ==
  Running =>
     /\ DOMAIN symbolTable = { Decls[i].name : i \in DOMAIN Decls }
     /\ \A i \in DOMAIN Decls : symbolTable[Decls[i].name].kind = Decls[i].type

\* C4 witness: y, declared INTEGER, was assigned the real quotient 7 / 2 and
\* holds the int 3
C4_Witness ==
  /\ phase = "done" /\ next = 2
  /\ \E i \in DOMAIN Decls : Decls[i] = [name |-> Y, type |-> "Int"]
  /\ symbolTable[Y] = IntVal(3)

\* the lexeme of the first string literal of the source
StringAt == CHOOSE i \in 1..Len(source) :
              source[i].k = "STRINGLIT" /\ \A j \in 1..(i - 1) : source[j].k # "STRINGLIT"
\* the table as the declarations left it: every declared name at its zero
ZeroTable ==
  [n \in { Decls[i].name : i \in DOMAIN Decls } |->
     LET i == CHOOSE i \in DOMAIN Decls : Decls[i].name = n
     IN  [kind |-> Decls[i].type, num |-> 0, den |-> 1]]

\* C6 as stated: a program whose only statement is WRITE of a quoted string
\* literal outputs the text between the quotes and a newline, without the
\* quotes, and leaves the symbol table as declared.
C6_WriteStringUnquoted ==
  (phase = "done" /\ Len(Stmts) = 1 /\ Stmts[1].node = "WriteStmt" /\ Stmts[1].kind = "Str") =>
     LET l == source[StringAt].lex
     IN  (Len(l) >= 2 /\ l[1] = Quote /\ l[Len(l)] = Quote) =>
           /\ out = SubSeq(l, 2, Len(l) - 1) \o <<NL>>
           /\ symbolTable = ZeroTable


\* a program `VAR y : REAL; BEGIN y := chain END`: the chain's tokens
ChainFrom == Len(Header \o RealVar) + 4
Chain == SubSeq(source, ChainFrom, Len(source) - 1)
IsChainProgram ==
  /\ Len(source) >= ChainFrom + 1
  /\ SubSeq(source, 1, ChainFrom - 1) =
       Header \o RealVar \o <<Tok("TOK_BEGIN"), Ident(Y), Tok("ASSIGN")>>
  /\ source[Len(source)].k = "END"
  /\ Len(Chain) % 2 = 1
  /\ \A i \in DOMAIN Chain :
       IF i % 2 = 1 THEN Chain[i].k = "INTLIT" ELSE Chain[i].k \in ChainOps

\* precedence levels: 1 for + -, 2 for * / MOD, 3 for ^^
Level(k) ==
  CASE k \in {"PLUS", "MINUS"} -> 1
    [] k \in {"MULTIPLY", "DIVIDE", "MOD"} -> 2
    [] k = "CUSTOM_OPER" -> 3
OpOf(k) ==
  CASE k = "PLUS" -> "Add" [] k = "MINUS" -> "Sub" [] k = "MULTIPLY" -> "Mul"
    [] k = "DIVIDE" -> "Div" [] k = "MOD" -> "Mod" [] k = "CUSTOM_OPER" -> "Pow"
OpsAt(c) == { i \in DOMAIN c : i % 2 = 0 }
Lowest(c) == CHOOSE l \in 1..3 :
               /\ \E i \in OpsAt(c) : Level(c[i].k) = l
               /\ \A i \in OpsAt(c) : Level(c[i].k) >= l
\* where the chain splits: at the last operator of its loosest level, or, for
\* a pure power chain, at the first
SplitAt(c) ==
  LET at == { i \in OpsAt(c) : Level(c[i].k) = Lowest(c) }
  IN  CHOOSE i \in at : \A j \in at : IF Lowest(c) = 3 THEN i <= j ELSE i >= j
\* the tree the grammar's precedence and associativity give the chain
RECURSIVE ChainTree(_)
ChainTree(c) ==
  IF Len(c) = 1 THEN IntLiteral(DigitsVal(c[1].lex))
  ELSE LET i == SplitAt(c)
       IN  BinaryExpr(OpOf(c[i].k), ChainTree(SubSeq(c, 1, i - 1)),
                      ChainTree(SubSeq(c, i + 1, Len(c))))

\* C8: a chain of binary operators parses to the tree in which ^^ nests to the
\* right, + - and * / MOD nest to the left, and * / MOD bind tighter than + -
\* and looser than ^^; y := 2 ^^ 3 ^^ 2 stores 512 and y := 8 - 3 - 2 stores 3.
C8_ChainShape ==
  (phase # "start" /\ IsChainProgram) =>
     /\ phase # "parseError"
     /\ Len(Stmts) = 1
     /\ Stmts[1] = AssignStmt(Y, ChainTree(Chain))
     /\ (phase = "done" /\ Chain = PowerExample) => symbolTable[Y] = RealVal(512, 1)
     /\ (phase = "done" /\ Chain = <<IntLit(<<"8">>), Tok("MINUS"), IntLit(<<"3">>),
                                     Tok("MINUS"), IntLit(<<"2">>)>>)
           => symbolTable[Y] = RealVal(3, 1)

\* C8 witness: y := 2 ^^ 3 ^^ 2 ran and y holds 512
C8_Witness ==
  /\ phase = "done" /\ IsChainProgram /\ Chain = PowerExample
  /\ Stmts[1].rhs.kids[2].op = "Pow"
  /\ symbolTable[Y] = RealVal(512, 1)


\* a program `VAR x : INTEGER; y : REAL; BEGIN y := a / b END` over literals
DivFrom == Len(Header) + 13
IsDivProgram ==
  /\ Len(source) = DivFrom + 3
  /\ SubSeq(source, 1, DivFrom - 1) =
       Header \o <<Tok("VAR")>> \o DeclToks(X, "INTEGER") \o DeclToks(Y, "REAL")
         \o <<Tok("TOK_BEGIN"), Ident(Y), Tok("ASSIGN")>>
  /\ source[DivFrom].k \in {"INTLIT", "FLOATLIT"}
  /\ source[DivFrom + 1].k = "DIVIDE"
  /\ source[DivFrom + 2].k \in {"INTLIT", "FLOATLIT"}
  /\ source[DivFrom + 3].k = "END"
\* the literal lexemes used as operands, as fractions <<numerator, denominator>>
LexFraction(lex) ==
  CASE lex = <<"7">> -> <<7, 1>>
    [] lex = <<"2">> -> <<2, 1>>
    [] lex = <<"0">> -> <<0, 1>>
    [] lex = <<"7", ".", "0">> -> <<7, 1>>
    [] lex = <<"2", ".", "0">> -> <<2, 1>>
    [] lex = <<"0", ".", "0">> -> <<0, 1>>
    [] lex = <<"7", ".", "5">> -> <<15, 2>>
    [] lex = <<"2", ".", "5">> -> <<5, 2>>
Dividend == LexFraction(source[DivFrom].lex)
Divisor == LexFraction(source[DivFrom + 2].lex)

\* C10: a / b with a non-zero divisor yields, for Int and Real operands in all
\* four combinations, the Real that is the exact quotient (7 / 2 is 3.5, never
\* 3), and the program x := 5; y := x / 2; WRITE(y) outputs 2.5000.
C10_DivIsReal ==
  /\ (phase # "start" /\ IsDivProgram /\ Divisor[1] # 0) =>
        /\ phase \in {"parsed", "done"}
        /\ phase = "done" =>
             /\ symbolTable[Y].kind = "Real"
             /\ symbolTable[Y].den > 0
             /\ symbolTable[Y].num * Divisor[1] * Dividend[2]
                  = symbolTable[Y].den * Dividend[1] * Divisor[2]
             /\ (source[DivFrom].lex = <<"7">> /\ source[DivFrom + 2].lex = <<"2">>)
                  => symbolTable[Y] = [kind |-> "Real", num |-> 7, den |-> 2]
  /\ (phase = "done" /\ source = DivExample) =>
        out = <<"2", ".", "5", "0", "0", "0", NL>>

\* C10 witness: the end-to-end program ran and wrote 2.5000
C10_Witness ==
  /\ phase = "done" /\ source = DivExample
  /\ symbolTable[Y] = [kind |-> "Real", num |-> 5, den |-> 2]
  /\ out = <<"2", ".", "5", "0", "0", "0", NL>>


\* ------------------------------------------------------------------------
\* Properties of the expression machine
\* ------------------------------------------------------------------------
\* the operands of x op y: the expression has no side effect, so the table
\* after the evaluation still holds them
IsXopY(o) == expr = XopY(o)
xv == symbolTable[X]
yv == symbolTable[Y]
IntOperands == xv.kind = "Int" /\ yv.kind = "Int"
Sign(n) == IF n < 0 THEN -1 ELSE IF n > 0 THEN 1 ELSE 0

\* C5 as stated: for Int a and b # 0, a MOD b yields an Int r that is 0 or has
\* the sign of b, with |r| < |b| and a - r divisible by b (so 7 MOD -3 = -2).
\* Operands at the ends of the int range are left out of the statement here.
C5_ModSignOfDivisor ==
  (phase = "evaluated" /\ IsXopY("Mod") /\ IntOperands /\ yv.num # 0
     /\ xv.num # IntMin /\ yv.num # IntMin) =>
     /\ result.ok
     /\ result.val.kind = "Int"
     /\ (result.val.num = 0 \/ Sign(result.val.num) = Sign(yv.num))
     /\ Abs(result.val.num) < Abs(yv.num)
     /\ (xv.num - result.val.num) % Abs(yv.num) = 0
     /\ (xv.num = -7 /\ yv.num = 3) => result.val.num = 2
     /\ (xv.num = 7 /\ yv.num = -3) => result.val.num = -2

\* b^e reduced modulo 2^32, by e successive multiplications
RECURSIVE IterLoop(_, _, _)
IterLoop(acc, b, e) ==
  IF e = 0 THEN acc
  ELSE LET step == <<Mul32(acc, b), e - 1>> IN IterLoop(step[1], b, step[2])
IterPow(b, e) == IterLoop(1, b, e)

\* C7: for Int b and Int e >= 0, b ^^ e does not fail and yields an Int; for
\* the exponents up to MaxExp it is b^e reduced modulo 2^32 into the signed
\* range, with b ^^ 0 = 1 and 2 ^^ 31 = -2147483648.
C7_IntPowerWraps ==
  (phase \in {"evaluated", "crashed"} /\ IsXopY("Pow") /\ IntOperands /\ yv.num >= 0) =>
     /\ phase = "evaluated"
     /\ result.ok
     /\ result.val.kind = "Int"
     /\ result.val.den = 1
     /\ yv.num <= MaxExp => result.val.num = IterPow(xv.num, yv.num)
     /\ yv.num = 0 => result.val.num = 1
     /\ (xv.num = 2 /\ yv.num = 31) => result.val.num = IntMin

\* C7 witness: 2 ^^ 31 was evaluated and wrapped to the minimum int
C7_Witness ==
  /\ phase = "evaluated" /\ IsXopY("Pow")
  /\ xv = IntVal(2) /\ yv = IntVal(31)
  /\ result.val = IntVal(IntMin)

\* the divisor y is Int 0 or Real 0.0, under / (any x) or under MOD (Int x, Int y)
ZeroDivisor ==
  /\ yv.num = 0 /\ yv.den = 1
  /\ IsXopY("Div") \/ (IsXopY("Mod") /\ IntOperands)

\* C9: a division by Int 0 or Real 0.0, and a MOD of Ints by 0, fails with
\* DivisionByZero and yields no value; an assignment with it as right side
\* fails the same way, leaves the whole symbol table (its target included) as
\* it was, and writes nothing.
C9_DivisionByZero ==
  [][(phase = "start" /\ ZeroDivisor) =>
       /\ symbolTable' = symbolTable
       /\ out' = out
       /\ \/ /\ phase' = "evaluated"
             /\ ~result'.ok
             /\ result'.err = "DivisionByZero"
             /\ result'.val = NoValue
          \/ /\ phase' = "runError"
             /\ err'.kind = "DivisionByZero"]_vars

\* C9 witness: the assignment of 7 / 0 failed and x still holds 7
C9_Witness ==
  /\ phase = "runError" /\ err.kind = "DivisionByZero"
  /\ IsXopY("Div") /\ xv = IntVal(7) /\ yv = IntVal(0)

\* the fraction num/den (den > 0) with its fractional part dropped
TowardZero(num, den) ==
  IF num >= 0 \/ num % den = 0 THEN num \div den ELSE (num \div den) + 1

\* what a target holding `old` holds after the store of the value v
StoredAs(old, v, new) ==
  /\ new.kind = old.kind
  /\ (IsInt(old) /\ IsInt(v)) => new = v
  /\ (IsInt(old) /\ IsReal(v) /\ IsFinite(v)) => new = IntVal(TowardZero(v.num, v.den))
  /\ (IsReal(old) /\ IsInt(v)) => (new.num = v.num /\ new.den = 1)
  /\ (IsReal(old) /\ IsReal(v)) => new = v

\* the table `after` is the table `before` with target t stored as by StoredAs
StoreOf(t, v, before, after) ==
  /\ DOMAIN after = DOMAIN before
  /\ StoredAs(before[t], v, after[t])
  /\ \A n \in DOMAIN before \ {t} : after[n] = before[n]

\* C11: an assignment t := e that completes stores e's value in the kind t
\* holds: a Real into an Int target truncated toward zero (3.5 stores 3, -3.5
\* stores -3), an Int into a Real target as the equal Real, a value of the
\* target's kind unchanged; every other entry stays as the evaluation of e
\* left it.
C11_AssignCoerces ==
  [][(phase = "start" /\ phase' = "assigned") =>
       \E t \in {X, Y} :
          StoreOf(t, eval(expr, symbolTable).val,
                  eval(expr, symbolTable).table, symbolTable')]_vars

\* C11 witness: x := x / y with Int x = -7 and y = 2 stored -3 (-3.5 truncated)
C11_Witness ==
  /\ phase = "assigned" /\ IsXopY("Div")
  /\ xv = IntVal(-3) /\ yv = IntVal(2)

\* C12 as stated: every error the parser raises carries the source line of
\* the offending token.
C12_ParseErrorsCarryLine ==
  phase = "parseError" => err.line

\* the END that closes the program's block: the first token from BodyStart on
\* at which the BEGINs and ENDs balance (0 when there is none)
RECURSIVE CloseFrom(_, _)
CloseFrom(i, d) ==
  IF i > Len(source) THEN 0
  ELSE IF source[i].k = "END" /\ d = 1 THEN i
  ELSE CloseFrom(i + 1, CASE source[i].k = "TOK_BEGIN" -> d + 1
                          [] source[i].k = "END" -> d - 1
                          [] OTHER -> d)
CloseIndex == CloseFrom(BodyStart, 0)
HasClose == CloseIndex # 0
\* tokens follow that END, and the source up to it is a complete program
Trailing == HasClose /\ CloseIndex < Len(source)
CompleteBeforeTrail == parseProgram(SubSeq(source, 1, CloseIndex), EmptyTable).ok

\* C13: a program parses only if the END that closes its block is the last
\* token before the end-of-input marker; a complete program followed by one or
\* more tokens fails with TrailingInputError at the first of them and no
\* Program is returned.
C13_TrailingInputRejected ==
  phase # "start" =>
     /\ phase # "parseError" => (HasClose /\ CloseIndex = Len(source))
     /\ (Trailing /\ CompleteBeforeTrail) =>
          /\ phase = "parseError"
          /\ err.kind = "TrailingInputError"
          /\ err.rest = Len(source) - CloseIndex
          /\ program = NoProgram

\* C13 witness: a program whose body holds one assignment, followed by a
\* second BEGIN END, was rejected for its trailing input
C13_Witness ==
  /\ phase = "parseError" /\ err.kind = "TrailingInputError"
  /\ Trailing /\ CompleteBeforeTrail
  /\ source[CloseIndex + 1].k = "TOK_BEGIN"
  /\ source[CloseIndex - 1].k = "INTLIT"

\* the word w is, as a whole, a numeral of the kind: an optional sign, then
\* digits (and, for a Real, at most one point among them)
IsNumeral(w, real) ==
  LET body == SubSeq(w, SignLen(w) + 1, Len(w))
  IN  /\ \A i \in DOMAIN body : IsDigit(body[i]) \/ (real /\ body[i] = ".")
      /\ Cardinality({ i \in DOMAIN body : body[i] = "." }) <= 1
      /\ \E i \in DOMAIN body : IsDigit(body[i])

\* C14 as stated: READ(x) with a next input word that is not a numeral of x's
\* kind fails with InputFormatError and leaves the symbol table as it was; with
\* a word that is one, it stores the word's value in x in x's kind, changes no
\* other variable and goes on to the next statement.
C14_ReadParsesToken ==
  [][(phase = "parsed" /\ next <= Len(Stmts) /\ Stmts[next].node = "ReadStmt"
        /\ cin # <<>>) =>
       LET id == Stmts[next].id
           real == IsReal(symbolTable[id])
       IN  IF IsNumeral(Head(cin), real)
           THEN /\ phase' = "parsed"
                /\ next' = next + 1
                /\ symbolTable' =
                     [symbolTable EXCEPT ![id] = Extract(Head(cin), real).val]
           ELSE /\ phase' = "runError"
                /\ err'.kind = "InputFormatError"
                /\ symbolTable' = symbolTable]_vars

\* the tokens between BEGIN and the closing END, cut at the semicolons that
\* stand directly inside the program's compound: k semicolons give k + 1
\* segments, in source order
RECURSIVE SplitFrom(_, _, _, _, _)
SplitFrom(i, stop, d, cur, acc) ==
  IF i >= stop THEN Append(acc, cur)
  ELSE IF source[i].k = "SEMICOLON" /\ d = 0
       THEN SplitFrom(i + 1, stop, d, <<>>, Append(acc, cur))
  ELSE SplitFrom(i + 1, stop,
                 CASE source[i].k = "TOK_BEGIN" -> d + 1
                   [] source[i].k = "END" -> d - 1
                   [] OTHER -> d,
                 Append(cur, source[i]), acc)
Segments == SplitFrom(BodyStart + 1, CloseIndex, 0, <<>>, <<>>)
\* the tokens seg are one statement, no more and no less
WholeStatement(r) == r.ok /\ r.ts = <<>>
IsStatement(seg) == seg # <<>> /\ WholeStatement(parseStatement(seg, symbolTable))
\* the program is its header, declarations and one compound, nothing after
\* it, and has just been parsed
CompoundOnly ==
  /\ phase \in {"parsed", "parseError"} /\ next = 1 /\ out = <<>>
  /\ CloseIndex = Len(source)
Accepted == phase # "parseError"

\* C15 as stated: the compound is accepted exactly when it is BEGIN END or
\* every semicolon separates two statements, a ';' directly before END being
\* rejected; an accepted compound has (semicolons + 1) children, or none.
C15_SemicolonsOnlySeparate ==
  CompoundOnly =>
     LET segs == Segments
     IN  /\ Accepted <=> (segs = << <<>> >> \/ \A k \in DOMAIN segs : IsStatement(segs[k]))
         /\ Accepted => Len(Stmts) = (IF segs = << <<>> >> THEN 0 ELSE Len(segs))

\* C15, amended: the compound is accepted exactly when it is BEGIN END or a
\* statement follows BEGIN and every ';', except that the last ';' may stand
\* directly before END; the children are the statements between the
\* semicolons, in source order.
C15_CompoundGrammar ==
  CompoundOnly =>
     LET segs == Segments
         n == Len(segs) - 1
         last == segs[n + 1]
         count == IF last = <<>> THEN n ELSE n + 1
     IN  /\ Accepted <=>
              \/ segs = << <<>> >>
              \/ /\ \A k \in 1..n : IsStatement(segs[k])
                 /\ IsStatement(last) \/ (n >= 1 /\ last = <<>>)
         /\ Accepted =>
              /\ Len(Stmts) = count
              /\ \A k \in 1..count :
                   Stmts[k] = parseStatement(segs[k], symbolTable).val

\* C15 witness: BEGIN x := 5; WRITE(x); END parsed to two children
C15_Witness ==
  /\ CompoundOnly /\ Accepted
  /\ Len(Segments) = 3 /\ Segments[3] = <<>>
  /\ Len(Stmts) = 2
  /\ Stmts[1].node = "AssignStmt" /\ Stmts[2].node = "WriteStmt"

\* Properties of the process machine
\* the parse of the current program as a process with an empty table does it,
\* and the run of its statements from there
FreshParse == parseProgram(source, EmptyTable)
FreshRun == interpretAll(FreshParse.val.block.body.stmts, FreshParse.table, <<>>, <<>>, FALSE)

\* C16 as stated: every parseProgram of a process starts from an empty symbol
\* table, so each program parses as it would in a process of its own (earlier
\* names are neither visible nor duplicates) and a run that completes leaves
\* the output and the table it would leave there (no earlier value is seen).
C16_TableResetBetweenRuns ==
  /\ phase = "start" => symbolTable = EmptyTable
  /\ phase \in {"parsed", "parseError"} => (phase = "parsed") = FreshParse.ok
  /\ phase = "done" => (FreshParse.ok /\ out = FreshRun.out /\ symbolTable = FreshRun.table)

\* v one unit up or down in its own kind
Succ(v) == IF IsInt(v) THEN IntVal(v.num + 1) ELSE RAdd(v, RealOne)
Pred(v) == IF IsInt(v) THEN IntVal(v.num - 1) ELSE RSub(v, RealOne)
\* the sum of two values of x's kind
Twice(a, b) == IF IsInt(a) THEN IntVal(a.num + b.num) ELSE RAdd(a, b)
\* x is far enough from the ends of the int range for x + 1 + x + 1
MidRange(v) == IsReal(v) \/ (v.num > IntMin \div 2 /\ v.num < IntMax \div 2)

\* the evaluation yielded val and left x at xAfter, y and the names untouched
YieldsAndLeaves(val, xAfter) ==
  /\ phase' = "evaluated"
  /\ result'.ok
  /\ result'.val = val
  /\ symbolTable' = [symbolTable EXCEPT ![X] = xAfter]

\* C17: ++x / --x store x one unit up / down in x's kind and yield the stored
\* value, changing nothing else; in ++x + x the right operand sees the update,
\* in x + ++x the left operand does not: with Int x = 1 they yield 4 and 3 and
\* x is 2 afterwards.  (x at the end of the int range, where x + 1 does not
\* exist, is left out.)
C17_PreIncDecOrder ==
  [][(phase = "start" /\ phase' \in {"evaluated", "crashed"}) =>
       /\ (expr = PreIncDecExpr(TRUE, X) /\ xv # IntVal(IntMax)) =>
            YieldsAndLeaves(Succ(xv), Succ(xv))
       /\ (expr = PreIncDecExpr(FALSE, X) /\ xv # IntVal(IntMin)) =>
            YieldsAndLeaves(Pred(xv), Pred(xv))
       /\ (expr = IncThenX /\ MidRange(xv)) =>
            YieldsAndLeaves(Twice(Succ(xv), Succ(xv)), Succ(xv))
       /\ (expr = XThenInc /\ MidRange(xv)) =>
            YieldsAndLeaves(Twice(xv, Succ(xv)), Succ(xv))
       /\ (expr = IncThenX /\ xv = IntVal(1)) =>
            (result'.val = IntVal(4) /\ symbolTable'[X] = IntVal(2))
       /\ (expr = XThenInc /\ xv = IntVal(1)) =>
            (result'.val = IntVal(3) /\ symbolTable'[X] = IntVal(2))]_vars

\* C17 witness: x + ++x with Int x = 1 yielded 3 and left x = 2
C17_Witness ==
  /\ phase = "evaluated" /\ expr = XThenInc
  /\ result.ok /\ result.val = IntVal(3)
  /\ xv = IntVal(2)

\* the exact sum, difference or product of two ints reduced modulo 2^32 into
\* the signed range
Wrapped(o, a, b) ==
  CASE o = "Add" -> AddWrap(a, b)
    [] o = "Sub" -> SubWrap(a, b)
    [] o = "Mul" -> Mul32(a, b)

\* C18 as stated: with a Real operand x + y, x - y and x * y yield a Real;
\* with two Int operands they never fail and yield the Int obtained by
\* reducing the exact result modulo 2^32, also when the exact result is out of
\* the int range.
C18_IntArithWraps ==
  \A o \in {"Add", "Sub", "Mul"} :
     /\ (phase = "evaluated" /\ IsXopY(o) /\ ~IntOperands) =>
          (result.ok /\ IsReal(result.val))
     /\ (phase \in {"evaluated", "crashed"} /\ IsXopY(o) /\ IntOperands) =>
          /\ phase = "evaluated"
          /\ result.ok
          /\ result.val = IntVal(Wrapped(o, xv.num, yv.num))

\* the simple statements of a statement sequence in execution order, nested
\* compounds opened up
RECURSIVE Flat(_)
Flat(stmts) ==
  IF stmts = <<>> THEN <<>>
  ELSE (IF Head(stmts).node = "CompoundStmt" THEN Flat(Head(stmts).stmts)
        ELSE <<Head(stmts)>>) \o Flat(Tail(stmts))
\* the simple statements of the next top-level statement
NextFlat == Flat(<<Stmts[next]>>)
\* the execution state before it
Before == Done(symbolTable, out, cin, FALSE)
\* the first j simple statements of fl run one by one from st, stopping at a failure
RunOne(st, p) == IF ~p.ok THEN p ELSE interpret(st, p.table, p.out, p.cin)
RECURSIVE RunFirst(_, _, _)
RunFirst(fl, j, st) == IF j = 0 THEN st ELSE RunOne(fl[j], RunFirst(fl, j - 1, st))
\* what the evaluation of st's right side alone leaves of table T
SideEffectsOnly(st, T) == IF st.node = "AssignStmt" THEN eval(st.rhs, T).table ELSE T

\* the step ran the next top-level statement to its end
Completes(e) ==
  /\ e.ok
  /\ next' = next + 1
  /\ out' = e.out
  /\ cin' = e.cin
  /\ symbolTable' = e.table
\* the step failed in simple statement j, b being the state the j - 1 before it left
StopsAt(j, b, strict) ==
  /\ b.ok
  /\ ~RunOne(NextFlat[j], b).ok
  /\ err'.kind = RunOne(NextFlat[j], b).err
  /\ next' = next
  /\ out' = b.out
  /\ IF strict
     THEN NextFlat[j].node \in {"AssignStmt", "ReadStmt"} =>
            symbolTable'[NextFlat[j].id] = b.table[NextFlat[j].id]
     ELSE symbolTable' = SideEffectsOnly(NextFlat[j], b.table)
FailFast(strict) ==
  /\ phase # "runError"
  /\ phase = "parsed" => program' = program
  /\ (phase = "parsed" /\ phase' = "parsed") =>
       Completes(RunFirst(NextFlat, Len(NextFlat), Before))
  /\ (phase = "parsed" /\ phase' = "runError") =>
       \E j \in 1..Len(NextFlat) : StopsAt(j, RunFirst(NextFlat, j - 1, Before), strict)

\* C19 as stated: the statements before the first failing one run once each,
\* in order, and keep their effects; the failing statement and those after it
\* emit nothing, nothing runs after the failure, and the failing statement's
\* assignment or READ target holds what it held before that statement.
C19_FailFastTargetUntouched == [][FailFast(TRUE)]_vars

\* C19, amended: as above, except that of the failing statement only the store
\* of the assigned or read value is missing: what ++ and -- in its right side
\* stored before the error stays, in the target too.
C19_FailFast == [][FailFast(FALSE)]_vars

\* C19 witness: in BEGIN WRITE(y); x := 7 / 0; WRITE(x) END the division
\* failed after the first WRITE's line and before the second
C19_Witness ==
  /\ phase = "runError" /\ err.kind = "DivisionByZero"
  /\ next = 1 /\ Stmts[1].node = "CompoundStmt" /\ Len(Stmts[1].stmts) = 3
  /\ Len(Stmts) = 1
  /\ out = printValue(symbolTable[Y]) \o <<NL>>

\* the step ended in a TypeError, of the evaluation or of the assignment it is
\* the right side of, and left the table as given
TypeErrorLeaving(table) ==
  /\ \/ phase' = "evaluated" /\ ~result'.ok /\ result'.err = "TypeError"
        /\ result'.val = NoValue
     \/ phase' = "runError" /\ err'.kind = "TypeError"
  /\ symbolTable' = table

\* C20: x MOD y with a Real x or a Real y fails with TypeError whatever the
\* values, a divisor Real 0.0 or Int 0 included, and yields a value, an Int,
\* only for two Ints; in ++x MOD --y both operands have been evaluated when
\* the error is raised: x and y hold their updated values.  (Int operands at
\* the end of the int range, where ++ or -- overflows, are left out.)
C20_ModTypeError ==
  [][phase = "start" =>
       /\ (IsXopY("Mod") /\ ~IntOperands) => TypeErrorLeaving(symbolTable)
       /\ (IsXopY("Mod") /\ phase' = "evaluated" /\ result'.ok) =>
            (IntOperands /\ IsInt(result'.val))
       /\ (expr = IncModDec /\ ~IntOperands
             /\ xv # IntVal(IntMax) /\ yv # IntVal(IntMin)) =>
            TypeErrorLeaving([symbolTable EXCEPT ![X] = Succ(xv), ![Y] = Pred(yv)])]_vars

\* C20 witness: ++x MOD --y with Real x = 2.5 and Int y = 1 failed with
\* TypeError, x at 3.5 and the divisor y at 0
C20_Witness ==
  /\ phase = "evaluated" /\ expr = IncModDec
  /\ ~result.ok /\ result.err = "TypeError"
  /\ xv = RealVal(7, 2) /\ yv = IntVal(0)

====
